---- MODULE Spec2Model ----
(***************************************************************************)
(* Row-level authorization and biometric-data protection of the event      *)
(* photo application: the tables, the SECURITY DEFINER functions and the   *)
(* row-level policies of the migrations, as they stand after the last      *)
(* migration, and the client operations that go through them.              *)
(***************************************************************************)
EXTENDS Integers, Sequences, FiniteSets, TLC

VARIABLES authUsers, profiles, events, photos, face_matches, activity_logs,
          now, lastOp

vars == <<authUsers, profiles, events, photos, face_matches, activity_logs,
          now, lastOp>>

---------------------------------------------------------------------------
(* Bounds of the model *)

MaxEvents == 1
MaxPhotos == 2
MaxMatches == 2
MaxLog == 2
MaxNow == 2
MaxBurst == 12
MaxCascadeEvents == 2
MaxForged == 12

(* Identities: auth.uid() is one of Users, or NULL for a caller with no identity *)
NULL == "null"
Users == {"u1", "u2"}
Callers == Users \cup {NULL}
Names == {"n0", "n1"}
FaceData == {NULL, "faces"}
ScanData == {"scan"}

EventIds == 1..MaxEvents
PhotoIds == 1..MaxPhotos
MatchIds == 1..MaxMatches

---------------------------------------------------------------------------
(* Enumerated types of the schema *)

user_role == {"admin", "editor", "viewer"}

event_visibility == {"public", "private", "hybrid"}

activity_type == {"login", "logout", "event_created", "event_updated",
                  "photo_uploaded", "face_scanned", "user_role_changed",
                  "user_created", "user_deleted"}

\* interval '1 minute' of the rate limit, in seconds; HAVING COUNT > 10
RateWindow == 60
RateLimit == 10
\* one step of the clock, in seconds
TickSeconds == 30

---------------------------------------------------------------------------
(* Role resolver and policy predicates *)

\* the resolver with the column default 'viewer' for an identity without a
\* profile
get_user_role_default_viewer(profs, uid) ==
  IF \E p \in profs : p.user_id = uid
  THEN (CHOOSE p \in profs : p.user_id = uid).role
  ELSE "viewer"

get_user_role(profs, uid) ==
  IF \E p \in profs : p.user_id = uid
  THEN (CHOOSE p \in profs : p.user_id = uid).role
  ELSE NULL

has_role(profs, uid, role) ==
  \E p \in profs : p.user_id = uid /\ p.role = role

is_admin_or_editor(profs, uid) ==
  \E p \in profs : p.user_id = uid /\ p.role \in {"admin", "editor"}

(* events.visibility = 'public' OR auth.uid() IS NOT NULL *)
event_is_accessible(uid, e) ==
  e.visibility = "public" \/ uid # NULL

---------------------------------------------------------------------------
(* Audit log *)

\* a uuid argument that is NULL (ids are numbers in the model)
NULLID == 0

LogRow(uid, kind, t, meta) ==
  [user_id |-> uid, activity_type |-> kind, created_at |-> t, metadata |-> meta]

\* a literal is accepted as a value of the column's enum type only if the
\* enum declares it (enum input raises otherwise)
\* the enum with the four kinds can_access_face_match writes added to it
enum_in_with_audit_kinds(kind) ==
  kind \in activity_type \cup {"unauthorized_biometric_access",
                               "biometric_access_rate_limited",
                               "invalid_biometric_access",
                               "biometric_access_attempt"}

enum_in(kind) == kind \in activity_type

\* INSERT INTO public.activity_logs: the row's activity_type is read as a
\* value of the enum; the statement raises when it is none
insert_activity_log(logs, row) ==
  IF enum_in(row.activity_type)
  THEN [raised |-> FALSE, logs |-> Append(logs, row)]
  ELSE [raised |-> TRUE, logs |-> logs]

\* rows of the caller of kind biometric_access_attempt in the trailing minute
recent_attempts(logs, uid, t) ==
  Cardinality({i \in DOMAIN logs :
                 /\ logs[i].user_id = uid
                 /\ logs[i].activity_type = "biometric_access_attempt"
                 /\ logs[i].created_at > t - RateWindow})

---------------------------------------------------------------------------
(* Biometric access predicate and the functions built on it.  A result is    *)
(* [raised, value, logs]: a statement that raises aborts the call and leaves *)
(* the log as it was.                                                        *)

Raised(logs) == [raised |-> TRUE, value |-> FALSE, logs |-> logs]

Returned(v, ins) ==
  IF ins.raised THEN Raised(ins.logs)
  ELSE [raised |-> FALSE, value |-> v, logs |-> ins.logs]

can_access_face_match(uid, match_user_id, match_id, profs, fms, logs, t) ==
  LET meta(granted) == [target_user_id |-> match_user_id,
                        face_match_id |-> match_id,
                        access_granted |-> granted]
  IN
  IF uid = NULL
  THEN Returned(FALSE,
         insert_activity_log(logs,
           LogRow(NULL, "unauthorized_biometric_access", t, meta(FALSE))))
  ELSE
    \* the rate-limit query compares the enum column with a literal
    IF ~enum_in("biometric_access_attempt")
    THEN Raised(logs)
    ELSE
      LET rate_limit_exceeded == recent_attempts(logs, uid, t) > RateLimit
          is_valid_match == \E m \in fms : m.id = match_id /\ m.user_id = match_user_id
          is_admin == has_role(profs, uid, "admin")
          granted == is_admin \/ uid = match_user_id
      IN
      IF rate_limit_exceeded
      THEN Returned(FALSE,
             insert_activity_log(logs,
               LogRow(uid, "biometric_access_rate_limited", t, meta(FALSE))))
      ELSE IF ~is_valid_match
      THEN Returned(FALSE,
             insert_activity_log(logs,
               LogRow(uid, "invalid_biometric_access", t, meta(FALSE))))
      ELSE Returned(granted,
             insert_activity_log(logs,
               LogRow(uid, "biometric_access_attempt", t, meta(granted))))

\* the columns get_user_face_matches returns (face_scan_data is not one)
match_columns(fm) == [id |-> fm.id, user_id |-> fm.user_id, photo_id |-> fm.photo_id]

RECURSIVE scan_face_matches(_, _, _, _, _, _, _)
\* The predicate evaluated row by row over `todo`, in id order, each evaluation
\* seeing the log rows the earlier ones wrote.  target = NULL stands for the
\* policy's call can_access_face_match(user_id, id) on the row's own owner.
scan_face_matches(uid, target, todo, profs, fms, logs, t) ==
  IF todo = {}
  THEN [raised |-> FALSE, rows |-> {}, logs |-> logs]
  ELSE
    LET fm == CHOOSE x \in todo : \A y \in todo : x.id <= y.id
        owner == IF target = NULL THEN fm.user_id ELSE target
        r == can_access_face_match(uid, owner, fm.id, profs, fms, logs, t)
    IN
    IF r.raised
    THEN [raised |-> TRUE, rows |-> {}, logs |-> logs]
    ELSE
      LET rest == scan_face_matches(uid, target, todo \ {fm}, profs, fms, r.logs, t)
      IN [raised |-> rest.raised,
          rows |-> IF rest.raised THEN {}
                   ELSE IF r.value THEN rest.rows \cup {fm} ELSE rest.rows,
          logs |-> rest.logs]

\* direct SELECT on face_matches under "Strict biometric data access control"
select_face_matches(uid, profs, fms, logs, t) ==
  LET r == scan_face_matches(uid, NULL, fms, profs, fms, logs, t)
  IN IF r.raised THEN [raised |-> TRUE, rows |-> {}, logs |-> logs] ELSE r

\* get_user_face_matches without "fm.user_id = auth.uid()" in its first branch
get_user_face_matches_unfiltered(uid, target_user_id, profs, fms, logs, t) ==
  [raised |-> FALSE, rows |-> {match_columns(fm) : fm \in fms}, logs |-> logs]

get_user_face_matches(uid, target_user_id, profs, fms, logs, t) ==
  IF target_user_id = NULL
  THEN [raised |-> FALSE,
        rows |-> {match_columns(fm) : fm \in {m \in fms : m.user_id = uid}},
        logs |-> logs]
  ELSE
    LET r == scan_face_matches(uid, target_user_id, fms, profs, fms, logs, t)
    IN IF r.raised
       THEN [raised |-> TRUE, rows |-> {}, logs |-> logs]
       ELSE [raised |-> FALSE,
             rows |-> {match_columns(fm) : fm \in r.rows},
             logs |-> r.logs]

\* get_biometric_scan_data without the has_role test
get_biometric_scan_data_unchecked(uid, match_id, profs, fms) ==
  IF \E m \in fms : m.id = match_id
  THEN (CHOOSE m \in fms : m.id = match_id).face_scan_data
  ELSE NULL

get_biometric_scan_data(uid, match_id, profs, fms) ==
  IF \E m \in fms : m.id = match_id
  THEN IF has_role(profs, uid, "admin")
       THEN (CHOOSE m \in fms : m.id = match_id).face_scan_data
       ELSE NULL
  ELSE NULL

---------------------------------------------------------------------------
(* Photo read paths *)

\* direct SELECT on photos under "Secure photo access with biometric protection"
select_photos(uid, evs, phs) ==
  {p \in phs : \E e \in evs : e.id = p.event_id /\ event_is_accessible(uid, e)}

\* the columns get_safe_photos returns (face_data is not one)
safe_columns(p) == [id |-> p.id, event_id |-> p.event_id, uploaded_by |-> p.uploaded_by]

get_safe_photos(uid, event_id_filter, evs, phs) ==
  {safe_columns(p) :
     p \in {q \in phs : \E e \in evs :
                          /\ e.id = q.event_id
                          /\ event_is_accessible(uid, e)
                          /\ (event_id_filter = NULLID \/ q.event_id = event_id_filter)}}

get_photo_with_secure_face_data(uid, photo_row, profs) ==
  [photo_row EXCEPT !.face_data =
     IF has_role(profs, uid, "admin") \/ photo_row.uploaded_by = uid
     THEN photo_row.face_data
     ELSE NULL]

---------------------------------------------------------------------------
(* What the last request returned to its caller: its name and arguments, the *)
(* caller and the caller's stored role when it ran, whether it raised, the   *)
(* rows or value it returned, and the number of log rows it appended.        *)

Observed(name, uid, target, id, raised, ok, rows, data, grew, nth) ==
  [op |-> name, caller |-> uid, admin |-> has_role(profiles, uid, "admin"),
   role |-> get_user_role(profiles, uid),
   target |-> target, id |-> id, raised |-> raised, ok |-> ok, rows |-> rows,
   data |-> data, grew |-> grew, nth |-> nth]

NoOp ==
  [op |-> "none", caller |-> NULL, admin |-> FALSE, role |-> NULL,
   target |-> NULL, id |-> NULLID, raised |-> FALSE, ok |-> FALSE, rows |-> {},
   data |-> NULL, grew |-> 0, nth |-> 0]

LogCap == MaxLog + Cardinality(Users)

---------------------------------------------------------------------------
(* Operations on profiles *)

\* AFTER INSERT ON auth.users: handle_new_user
SignUp(u, name) ==
  /\ u \notin authUsers
  /\ ~ \E p \in profiles : p.user_id = u
  /\ Len(activity_logs) < LogCap
  /\ authUsers' = authUsers \cup {u}
  /\ profiles' = profiles \cup {[user_id |-> u, role |-> "viewer", full_name |-> name]}
  /\ activity_logs' = Append(activity_logs, LogRow(u, "user_created", now, NULL))
  /\ lastOp' = Observed("signup", u, NULL, NULLID, FALSE, TRUE, {}, NULL, 1, 0)
  /\ UNCHANGED <<events, photos, face_matches, now>>

\* UPDATE policies on profiles, OR-ed: "Users can update their own profile",
\* "Admins can update any profile".  Neither has a WITH CHECK, so the USING
\* expression is what the new row is checked against.
profile_update_admitted(profs, uid, old, new) ==
  /\ (uid = old.user_id \/ has_role(profs, uid, "admin"))
  /\ (uid = new.user_id \/ has_role(profs, uid, "admin"))

\* UPDATE profiles SET role, full_name WHERE user_id = t, as caller c
\* (updateUserRole sets the role alone)
UpdateProfile(c, t, newRole, newName) ==
  /\ \E p \in profiles : p.user_id = t
  /\ LET old == CHOOSE p \in profiles : p.user_id = t
         new == [old EXCEPT !.role = newRole, !.full_name = newName]
         admitted == profile_update_admitted(profiles, c, old, new)
     IN /\ profiles' = IF admitted THEN (profiles \ {old}) \cup {new} ELSE profiles
        /\ lastOp' = Observed("update_profile", c, NULL, NULLID, FALSE, admitted, {}, NULL, 0, 0)
  /\ UNCHANGED <<authUsers, events, photos, face_matches, activity_logs, now>>

\* supabase.rpc('get_user_role', {user_id: c}), as caller c
CallGetUserRole(c) ==
  /\ lastOp' = Observed("get_user_role", c, c, NULLID, FALSE, TRUE, {},
                        get_user_role(profiles, c), 0, 0)
  /\ UNCHANGED <<authUsers, profiles, events, photos, face_matches, activity_logs, now>>

\* the SELECT policy "Users can view all profiles" that part_001 drops
select_profiles_all(profs, uid) == profs

\* SELECT policies on profiles, OR-ed: "Users can view their own profile",
\* "Admins can view all profiles"
select_profiles(profs, uid) ==
  {p \in profs : uid = p.user_id \/ has_role(profs, uid, "admin")}

\* supabase.from('profiles').select('*')
SelectProfiles(c) ==
  /\ lastOp' = Observed("select_profiles", c, NULL, NULLID, FALSE, TRUE,
                        select_profiles(profiles, c), NULL, 0, 0)
  /\ UNCHANGED <<authUsers, profiles, events, photos, face_matches, activity_logs, now>>

\* INSERT policy "Users can insert their own profile": auth.uid() = user_id
\* (not true of a caller with no identity)
profile_insert_admitted(uid, new) ==
  uid # NULL /\ uid = new.user_id

\* INSERT INTO profiles (user_id, role, full_name) as caller c; user_id is
\* UNIQUE and references auth.users
InsertProfile(c, u, r, name) ==
  /\ u \in authUsers
  /\ LET new == [user_id |-> u, role |-> r, full_name |-> name]
         admitted == /\ profile_insert_admitted(c, new)
                     /\ ~ \E p \in profiles : p.user_id = u
     IN /\ profiles' = IF admitted THEN profiles \cup {new} ELSE profiles
        /\ lastOp' = Observed("insert_profile", c, NULL, NULLID, ~admitted, admitted,
                              {}, NULL, 0, 0)
  /\ UNCHANGED <<authUsers, events, photos, face_matches, activity_logs, now>>

\* DELETE policy "Admins can delete profiles"
profile_delete_admitted(profs, uid) ==
  has_role(profs, uid, "admin")

\* supabase.from('profiles').delete().eq('user_id', t), as caller c: the rows
\* the policy does not admit are left alone and no error is returned
DeleteProfile(c, t) ==
  /\ \E p \in profiles : p.user_id = t
  /\ LET admitted == profile_delete_admitted(profiles, c)
     IN /\ profiles' = IF admitted THEN {p \in profiles : p.user_id # t} ELSE profiles
        /\ lastOp' = Observed("delete_profile", c, NULL, NULLID, FALSE, admitted,
                              {}, NULL, 0, 0)
  /\ UNCHANGED <<authUsers, events, photos, face_matches, activity_logs, now>>

---------------------------------------------------------------------------
(* Operations on events and photos *)

\* INSERT policy "Admins and editors can create events"
InsertEvent(c, id, vis, by) ==
  /\ ~ \E e \in events : e.id = id
  /\ by \in authUsers
  /\ LET admitted == is_admin_or_editor(profiles, c)
     IN /\ events' = IF admitted
                     THEN events \cup {[id |-> id, visibility |-> vis, created_by |-> by]}
                     ELSE events
        /\ lastOp' = Observed("insert_event", c, NULL, NULLID, ~admitted, admitted, {}, NULL, 0, 0)
  /\ UNCHANGED <<authUsers, profiles, photos, face_matches, activity_logs, now>>

\* the SELECT policy without its "auth.uid() IS NOT NULL" alternative
select_events_public_only(uid, evs) ==
  {e \in evs : e.visibility = "public"}

\* SELECT policy "Everyone can view public events"
select_events(uid, evs) ==
  {e \in evs : event_is_accessible(uid, e)}

\* supabase.from('events').select('*')
SelectEvents(c) ==
  /\ lastOp' = Observed("select_events", c, NULL, NULLID, FALSE, TRUE,
                        select_events(c, events), NULL, 0, 0)
  /\ UNCHANGED <<authUsers, profiles, events, photos, face_matches, activity_logs, now>>

\* the UPDATE policy applied to the existing row only
event_update_admitted_old_row_only(profs, uid, old, new) ==
  has_role(profs, uid, "admin") \/ old.created_by = uid

\* UPDATE policy "Admins and event creators can update events" (USING only:
\* it is also the check on the new row)
event_update_admitted(profs, uid, old, new) ==
  /\ (has_role(profs, uid, "admin") \/ old.created_by = uid)
  /\ (has_role(profs, uid, "admin") \/ new.created_by = uid)

\* UPDATE events SET visibility, created_by WHERE id = id, as caller c
UpdateEvent(c, id, vis, by) ==
  /\ \E e \in events : e.id = id
  /\ by \in authUsers
  /\ LET old == CHOOSE e \in events : e.id = id
         new == [old EXCEPT !.visibility = vis, !.created_by = by]
         admitted == /\ old \in select_events(c, events)
                     /\ event_update_admitted(profiles, c, old, new)
     IN /\ events' = IF admitted THEN (events \ {old}) \cup {new} ELSE events
        /\ lastOp' = Observed("update_event", c, NULL, NULLID, FALSE, admitted, {}, NULL, 0, 0)
  /\ UNCHANGED <<authUsers, profiles, photos, face_matches, activity_logs, now>>

\* DELETE policy "Admins can delete events"
event_delete_admitted(profs, uid) ==
  has_role(profs, uid, "admin")

\* photos.event_id REFERENCES events(id) ON DELETE CASCADE
cascade_photos(evs, phs) ==
  {p \in phs : \E e \in evs : e.id = p.event_id}

\* the face matches left in place when their photo goes
cascade_face_matches_none(phs, fms) == fms

\* face_matches.photo_id REFERENCES photos(id) ON DELETE CASCADE
cascade_face_matches(phs, fms) ==
  {m \in fms : \E p \in phs : p.id = m.photo_id}

\* DELETE FROM events WHERE id = id, as caller c, with the cascades
DeleteEvent(c, id) ==
  /\ \E e \in events : e.id = id
  /\ LET old == CHOOSE e \in events : e.id = id
         admitted == /\ old \in select_events(c, events)
                     /\ event_delete_admitted(profiles, c)
         evs == IF admitted THEN events \ {old} ELSE events
         phs == cascade_photos(evs, photos)
     IN /\ events' = evs
        /\ photos' = phs
        /\ face_matches' = cascade_face_matches(phs, face_matches)
        /\ lastOp' = Observed("delete_event", c, NULL, id, FALSE, admitted, {}, NULL, 0, 0)
  /\ UNCHANGED <<authUsers, profiles, activity_logs, now>>

\* INSERT policy "Admins and editors can upload photos"
InsertPhoto(c, id, ev, by, fd) ==
  /\ ~ \E p \in photos : p.id = id
  /\ \E e \in events : e.id = ev
  /\ by \in authUsers
  /\ LET admitted == is_admin_or_editor(profiles, c)
     IN /\ photos' = IF admitted
                     THEN photos \cup {[id |-> id, event_id |-> ev, uploaded_by |-> by,
                                        face_data |-> fd]}
                     ELSE photos
        /\ lastOp' = Observed("insert_photo", c, NULL, NULLID, ~admitted, admitted, {}, NULL, 0, 0)
  /\ UNCHANGED <<authUsers, profiles, events, face_matches, activity_logs, now>>

\* UPDATE policy "Admins and photo uploaders can update photos" (USING only:
\* it is also the check on the new row)
photo_update_admitted(profs, uid, old, new) ==
  /\ (has_role(profs, uid, "admin") \/ old.uploaded_by = uid)
  /\ (has_role(profs, uid, "admin") \/ new.uploaded_by = uid)

UpdatePhoto(c, id, by, fd) ==
  /\ \E p \in select_photos(c, events, photos) : p.id = id
  /\ by \in authUsers
  /\ LET old == CHOOSE p \in photos : p.id = id
         new == [old EXCEPT !.uploaded_by = by, !.face_data = fd]
         admitted == photo_update_admitted(profiles, c, old, new)
     IN /\ photos' = IF admitted THEN (photos \ {old}) \cup {new} ELSE photos
        /\ lastOp' = Observed("update_photo", c, NULL, NULLID, FALSE, admitted, {}, NULL, 0, 0)
  /\ UNCHANGED <<authUsers, profiles, events, face_matches, activity_logs, now>>

\* a DELETE policy that also admits the photo's uploader
photo_delete_admitted_for_uploader(profs, uid, row) ==
  has_role(profs, uid, "admin") \/ row.uploaded_by = uid

\* DELETE policy "Admins can delete photos"
photo_delete_admitted(profs, uid, row) ==
  has_role(profs, uid, "admin")

\* DELETE FROM photos WHERE id = id, as caller c, with the cascade
DeletePhoto(c, id) ==
  /\ \E p \in photos : p.id = id
  /\ LET old == CHOOSE p \in photos : p.id = id
         admitted == /\ old \in select_photos(c, events, photos)
                     /\ photo_delete_admitted(profiles, c, old)
         phs == IF admitted THEN photos \ {old} ELSE photos
     IN /\ photos' = phs
        /\ face_matches' = cascade_face_matches(phs, face_matches)
        /\ lastOp' = Observed("delete_photo", c, NULL, id, FALSE, admitted, {}, NULL, 0, 0)
  /\ UNCHANGED <<authUsers, profiles, events, activity_logs, now>>

\* supabase.from('photos').select('*')
SelectPhotos(c) ==
  /\ lastOp' = Observed("select_photos", c, NULL, NULLID, FALSE, TRUE,
                        select_photos(c, events, photos), NULL, 0, 0)
  /\ UNCHANGED <<authUsers, profiles, events, photos, face_matches, activity_logs, now>>

GetSafePhotos(c, filter) ==
  /\ lastOp' = Observed("get_safe_photos", c, NULL, filter, FALSE, TRUE,
                        get_safe_photos(c, filter, events, photos), NULL, 0, 0)
  /\ UNCHANGED <<authUsers, profiles, events, photos, face_matches, activity_logs, now>>

\* SELECT get_photo_with_secure_face_data(p) FROM photos p WHERE p.id = id
GetPhotoSecure(c, id) ==
  /\ \E p \in select_photos(c, events, photos) : p.id = id
  /\ LET p == CHOOSE q \in photos : q.id = id
     IN lastOp' = Observed("get_photo_with_secure_face_data", c, NULL, id, FALSE, TRUE,
                           {get_photo_with_secure_face_data(c, p, profiles)}, NULL, 0, 0)
  /\ UNCHANGED <<authUsers, profiles, events, photos, face_matches, activity_logs, now>>

---------------------------------------------------------------------------
(* The profile specification: sign-up and profile updates, from an empty   *)
(* database                                                                *)

Init ==
  /\ authUsers = {}
  /\ profiles = {}
  /\ events = {}
  /\ photos = {}
  /\ face_matches = {}
  /\ activity_logs = <<>>
  /\ now = 0
  /\ lastOp = NoOp

Next ==
  \/ \E u \in Users, n \in Names : SignUp(u, n)
  \/ \E c \in Callers, t \in Users, r \in user_role, n \in Names : UpdateProfile(c, t, r, n)
  \/ \E c \in Callers, u \in Users, r \in user_role : InsertProfile(c, u, r, "n0")
  \/ \E c \in Callers, t \in Users : DeleteProfile(c, t)
  \/ \E c \in Callers : SelectProfiles(c)
  \/ \E c \in Callers : CallGetUserRole(c)

Spec == Init /\ [][Next]_vars

---------------------------------------------------------------------------
(* The photo specification: every user has signed up; role changes, events, *)
(* photos and the three photo read paths                                    *)

SignedUp ==
  /\ authUsers = Users
  /\ profiles = {[user_id |-> u, role |-> "viewer", full_name |-> "n0"] : u \in Users}
  /\ activity_logs = <<LogRow("u1", "user_created", 0, NULL), LogRow("u2", "user_created", 0, NULL)>>
  /\ now = 0
  /\ lastOp = NoOp

InitPhotos ==
  /\ SignedUp
  /\ events = {}
  /\ photos = {}
  /\ face_matches = {}

NextPhotos ==
  \/ \E c \in Callers, t \in Users, r \in user_role : UpdateProfile(c, t, r, "n0")
  \/ \E c \in Callers, id \in EventIds, v \in event_visibility, by \in Users :
       InsertEvent(c, id, v, by)
  \/ \E c \in Callers, id \in PhotoIds, ev \in EventIds, by \in Users, fd \in FaceData :
       InsertPhoto(c, id, ev, by, fd)
  \/ \E c \in Callers, id \in PhotoIds, by \in Users, fd \in FaceData :
       UpdatePhoto(c, id, by, fd)
  \/ \E c \in Callers : SelectPhotos(c)
  \/ \E c \in Callers, f \in EventIds \cup {NULLID} : GetSafePhotos(c, f)
  \/ \E c \in Callers, id \in PhotoIds : GetPhotoSecure(c, id)

SpecPhotos == InitPhotos /\ [][NextPhotos]_vars

---------------------------------------------------------------------------
(* The event specification: every user has signed up; role changes and     *)
(* every statement a client can issue on events                            *)

InitEvents ==
  /\ SignedUp
  /\ events = {}
  /\ photos = {}
  /\ face_matches = {}

NextEvents ==
  \/ \E c \in Callers, t \in Users, r \in user_role : UpdateProfile(c, t, r, "n0")
  \/ \E c \in Callers, id \in EventIds, v \in event_visibility, by \in Users :
       InsertEvent(c, id, v, by)
  \/ \E c \in Callers, id \in EventIds, v \in event_visibility, by \in Users :
       UpdateEvent(c, id, v, by)
  \/ \E c \in Callers, id \in EventIds : DeleteEvent(c, id)
  \/ \E c \in Callers : SelectEvents(c)

SpecEvents == InitEvents /\ [][NextEvents]_vars

---------------------------------------------------------------------------
(* The photo-mutation specification: every user has signed up and an admin  *)
(* has created one event per id; role changes and every statement a client  *)
(* can issue on photos                                                      *)

InitPhotoOps ==
  /\ SignedUp
  /\ events \in {{[id |-> i, visibility |-> f[i], created_by |-> "u1"] : i \in EventIds} :
                   f \in [EventIds -> event_visibility]}
  /\ photos = {}
  /\ face_matches = {}

NextPhotoOps ==
  \/ \E c \in Callers, t \in Users, r \in user_role : UpdateProfile(c, t, r, "n0")
  \/ \E c \in Callers, id \in PhotoIds, ev \in EventIds, by \in Users :
       InsertPhoto(c, id, ev, by, "faces")
  \/ \E c \in Callers, id \in PhotoIds, by \in Users : UpdatePhoto(c, id, by, "faces")
  \/ \E c \in Callers, id \in PhotoIds : DeletePhoto(c, id)
  \/ \E c \in Callers : SelectPhotos(c)

SpecPhotoOps == InitPhotoOps /\ [][NextPhotoOps]_vars

---------------------------------------------------------------------------
(* Biometric operations *)

\* supabase.rpc('can_access_face_match', {match_user_id, match_id}).  nth
\* counts the caller's consecutive identical calls at the same instant.
CallCanAccessFaceMatch(c, o, id) ==
  LET r == can_access_face_match(c, o, id, profiles, face_matches, activity_logs, now)
      same == /\ lastOp.op = "can_access_face_match"
              /\ lastOp.caller = c /\ lastOp.target = o /\ lastOp.id = id
      nth == IF same THEN lastOp.nth + 1 ELSE 1
  IN /\ nth <= MaxBurst
     /\ Len(r.logs) <= LogCap
     /\ activity_logs' = r.logs
     /\ lastOp' = Observed("can_access_face_match", c, o, id, r.raised, r.value, {}, NULL,
                           Len(r.logs) - Len(activity_logs), nth)
     /\ UNCHANGED <<authUsers, profiles, events, photos, face_matches, now>>

\* supabase.rpc('get_user_face_matches', {target_user_id})
CallGetUserFaceMatches(c, target) ==
  LET r == get_user_face_matches(c, target, profiles, face_matches, activity_logs, now)
  IN /\ Len(r.logs) <= LogCap
     /\ activity_logs' = r.logs
     /\ lastOp' = Observed("get_user_face_matches", c, target, NULLID, r.raised, ~r.raised,
                           r.rows, NULL, Len(r.logs) - Len(activity_logs), 0)
     /\ UNCHANGED <<authUsers, profiles, events, photos, face_matches, now>>

\* supabase.rpc('get_biometric_scan_data', {match_id})
CallGetBiometricScanData(c, id) ==
  /\ lastOp' = Observed("get_biometric_scan_data", c, NULL, id, FALSE, TRUE, {},
                        get_biometric_scan_data(c, id, profiles, face_matches), 0, 0)
  /\ UNCHANGED <<authUsers, profiles, events, photos, face_matches, activity_logs, now>>

\* supabase.from('face_matches').select('*')
SelectFaceMatches(c) ==
  LET r == select_face_matches(c, profiles, face_matches, activity_logs, now)
  IN /\ Len(r.logs) <= LogCap
     /\ activity_logs' = r.logs
     /\ lastOp' = Observed("select_face_matches", c, NULL, NULLID, r.raised, ~r.raised,
                           r.rows, NULL, Len(r.logs) - Len(activity_logs), 0)
     /\ UNCHANGED <<authUsers, profiles, events, photos, face_matches, now>>

\* the clock: now() of the next request
Tick ==
  /\ now + TickSeconds <= MaxNow * TickSeconds
  /\ now' = now + TickSeconds
  /\ lastOp' = NoOp
  /\ UNCHANGED <<authUsers, profiles, events, photos, face_matches, activity_logs>>

---------------------------------------------------------------------------
(* The biometric specification: every user has signed up, one event with    *)
(* one photo, and the face matches written while the policy "Users can      *)
(* create their own face matches" was in force                              *)

LegacyMatches ==
  {{[id |-> i, user_id |-> f[i], photo_id |-> 1, face_scan_data |-> "scan"] : i \in S} :
     S \in SUBSET MatchIds, f \in [MatchIds -> Users]}

InitBio ==
  /\ SignedUp
  /\ events = {[id |-> 1, visibility |-> "public", created_by |-> "u1"]}
  /\ photos = {[id |-> 1, event_id |-> 1, uploaded_by |-> "u1", face_data |-> "faces"]}
  /\ face_matches \in LegacyMatches

NextBio ==
  \/ \E c \in Callers, t \in Users, r \in user_role : UpdateProfile(c, t, r, "n0")
  \/ \E c \in Callers, o \in Users, id \in MatchIds : CallCanAccessFaceMatch(c, o, id)
  \/ \E c \in Callers, t \in Callers : CallGetUserFaceMatches(c, t)
  \/ \E c \in Callers, id \in MatchIds : CallGetBiometricScanData(c, id)
  \/ \E c \in Callers : SelectFaceMatches(c)
  \/ Tick

SpecBio == InitBio /\ [][NextBio]_vars

---------------------------------------------------------------------------
(* Operations on the activity log *)

\* SELECT policies on activity_logs, OR-ed: "Admins can view all activity
\* logs", "Editors can view activity logs".  The result is the set of
\* positions of the rows returned.
select_activity_logs(profs, uid, logs) ==
  {i \in DOMAIN logs : has_role(profs, uid, "admin") \/ is_admin_or_editor(profs, uid)}

\* supabase.from('activity_logs').select('*')
SelectActivityLogs(c) ==
  /\ lastOp' = Observed("select_activity_logs", c, NULL, NULLID, FALSE, TRUE,
                        select_activity_logs(profiles, c, activity_logs), NULL, 0, 0)
  /\ UNCHANGED <<authUsers, profiles, events, photos, face_matches, activity_logs, now>>

\* INSERT policy "System can insert activity logs": WITH CHECK (true)
activity_log_insert_admitted(uid, row) == TRUE

\* supabase.from('activity_logs').insert({user_id, activity_type}), as caller c
InsertActivityLog(c, uid, kind) ==
  LET row == LogRow(uid, kind, now, NULL)
      r == IF activity_log_insert_admitted(c, row)
           THEN insert_activity_log(activity_logs, row)
           ELSE [raised |-> TRUE, logs |-> activity_logs]
  IN /\ Len(r.logs) <= LogCap
     /\ activity_logs' = r.logs
     /\ lastOp' = Observed("insert_activity_log", c, NULL, NULLID, r.raised, ~r.raised,
                           {}, NULL, Len(r.logs) - Len(activity_logs), 0)
     /\ UNCHANGED <<authUsers, profiles, events, photos, face_matches, now>>

RECURSIVE insert_activity_logs(_, _, _)
\* INSERT of n copies of a row in one statement: the first row that raises
\* aborts the statement
insert_activity_logs(logs, row, n) ==
  IF n = 0
  THEN [raised |-> FALSE, logs |-> logs]
  ELSE LET r == insert_activity_log(logs, row)
       IN IF r.raised
          THEN [raised |-> TRUE, logs |-> logs]
          ELSE insert_activity_logs(r.logs, row, n - 1)

\* supabase.from('activity_logs').insert([...n rows...]), as caller c, each
\* row carrying user_id uid
BulkInsertActivityLog(c, uid, kind, n) ==
  LET row == LogRow(uid, kind, now, NULL)
      r == IF activity_log_insert_admitted(c, row)
           THEN insert_activity_logs(activity_logs, row, n)
           ELSE [raised |-> TRUE, logs |-> activity_logs]
      logs == IF r.raised THEN activity_logs ELSE r.logs
  IN /\ Len(logs) <= Cardinality(Users) + MaxForged
     /\ activity_logs' = logs
     /\ lastOp' = Observed("insert_activity_logs", c, uid, NULLID, r.raised, ~r.raised,
                           {}, NULL, Len(logs) - Len(activity_logs), 0)
     /\ UNCHANGED <<authUsers, profiles, events, photos, face_matches, now>>

\* row-level security is enabled on activity_logs and no policy is FOR
\* UPDATE: an UPDATE sees no row
activity_log_update_admitted(profs, uid, row) == FALSE

\* UPDATE activity_logs SET activity_type = kind WHERE (the row at position i)
UpdateActivityLog(c, i, kind) ==
  /\ i \in DOMAIN activity_logs
  /\ enum_in(kind)
  /\ LET admitted == activity_log_update_admitted(profiles, c, activity_logs[i])
     IN /\ activity_logs' = IF admitted
                            THEN [activity_logs EXCEPT ![i].activity_type = kind]
                            ELSE activity_logs
        /\ lastOp' = Observed("update_activity_log", c, NULL, NULLID, FALSE, admitted,
                              {}, NULL, 0, 0)
  /\ UNCHANGED <<authUsers, profiles, events, photos, face_matches, now>>

\* a DELETE policy for admins, which the migrations do not create
activity_log_delete_admitted_for_admin(profs, uid, row) ==
  has_role(profs, uid, "admin")

\* no policy is FOR DELETE either: a DELETE sees no row
activity_log_delete_admitted(profs, uid, row) == FALSE

remove_at(s, i) ==
  [j \in 1..(Len(s) - 1) |-> IF j < i THEN s[j] ELSE s[j + 1]]

\* DELETE FROM activity_logs WHERE (the row at position i)
DeleteActivityLog(c, i) ==
  /\ i \in DOMAIN activity_logs
  /\ LET admitted == activity_log_delete_admitted(profiles, c, activity_logs[i])
     IN /\ activity_logs' = IF admitted THEN remove_at(activity_logs, i) ELSE activity_logs
        /\ lastOp' = Observed("delete_activity_log", c, NULL, NULLID, FALSE, admitted,
                              {}, NULL, 0, 0)
  /\ UNCHANGED <<authUsers, profiles, events, photos, face_matches, now>>

\* FaceMatch.checkForPreviousScans as signed-in user c: the user's
\* face_scanned rows are read from activity_logs (under its SELECT policies);
\* if one is returned, hasScanned is set and loadMatches runs:
\* get_user_face_matches(target_user_id = c), then the photos of the matches
checkForPreviousScans(c) ==
  LET visible == select_activity_logs(profiles, c, activity_logs)
      scans == {i \in visible : /\ activity_logs[i].user_id = c
                                /\ activity_logs[i].activity_type = "face_scanned"}
      hasScanned == scans # {}
      r == IF hasScanned
           THEN get_user_face_matches(c, c, profiles, face_matches, activity_logs, now)
           ELSE [raised |-> FALSE, rows |-> {}, logs |-> activity_logs]
      matchedPhotos == {p \in select_photos(c, events, photos) :
                          \E fm \in r.rows : fm.photo_id = p.id}
  IN /\ Len(r.logs) <= LogCap
     /\ activity_logs' = r.logs
     /\ lastOp' = Observed("checkForPreviousScans", c, c, NULLID, r.raised, hasScanned,
                           matchedPhotos, NULL, Len(r.logs) - Len(activity_logs), 0)
     /\ UNCHANGED <<authUsers, profiles, events, photos, face_matches, now>>

\* UserManagement.updateUserRole(t, newRole) as signed-in user c: the role
\* update (an update that reaches no row returns no error), then the
\* user_role_changed row and the success message.  The observation holds the
\* number of rows updated (id), the new role (data) and whether success was
\* reported (ok).
updateUserRole(c, t, newRole) ==
  /\ \E p \in profiles : p.user_id = t
  /\ LET old == CHOOSE p \in profiles : p.user_id = t
         new == [old EXCEPT !.role = newRole]
         admitted == profile_update_admitted(profiles, c, old, new)
         row == LogRow(c, "user_role_changed", now, NULL)
         ins == IF activity_log_insert_admitted(c, row)
                THEN insert_activity_log(activity_logs, row)
                ELSE [raised |-> TRUE, logs |-> activity_logs]
     IN /\ Len(ins.logs) <= LogCap
        /\ profiles' = IF admitted THEN (profiles \ {old}) \cup {new} ELSE profiles
        /\ activity_logs' = ins.logs
        /\ lastOp' = Observed("updateUserRole", c, t, IF admitted THEN 1 ELSE 0, FALSE, TRUE,
                              {}, newRole, Len(ins.logs) - Len(activity_logs), 0)
  /\ UNCHANGED <<authUsers, events, photos, face_matches, now>>

---------------------------------------------------------------------------
(* The activity-log specification: every user has signed up; role changes   *)
(* and every statement a client can issue on activity_logs                  *)

\* a kind the clients write and a kind only can_access_face_match writes
LogKinds == {"face_scanned", "biometric_access_attempt"}

InitLogs ==
  /\ SignedUp
  /\ events = {}
  /\ photos = {}
  /\ face_matches = {}

NextLogs ==
  \/ \E c \in Callers, t \in Users, r \in user_role : UpdateProfile(c, t, r, "n0")
  \/ \E c \in Callers, k \in LogKinds : InsertActivityLog(c, c, k)
  \/ \E c \in Callers, i \in 1..LogCap, k \in LogKinds : UpdateActivityLog(c, i, k)
  \/ \E c \in Callers, i \in 1..LogCap : DeleteActivityLog(c, i)
  \/ \E c \in Callers : SelectActivityLogs(c)
  \/ \E c \in Users : checkForPreviousScans(c)
  \/ \E c \in Users, t \in Users, r \in user_role : updateUserRole(c, t, r)

SpecLogs == InitLogs /\ [][NextLogs]_vars

---------------------------------------------------------------------------
(* The forged-log specification: u1 owns a face match and calls the access  *)
(* predicate on it; u2 inserts activity-log rows that carry u1's identity   *)

InitForge ==
  /\ SignedUp
  /\ events = {[id |-> 1, visibility |-> "public", created_by |-> "u1"]}
  /\ photos = {[id |-> 1, event_id |-> 1, uploaded_by |-> "u1", face_data |-> "faces"]}
  /\ face_matches = {[id |-> 1, user_id |-> "u1", photo_id |-> 1, face_scan_data |-> "scan"]}

NextForge ==
  \/ \E k \in LogKinds, n \in 1..MaxForged : BulkInsertActivityLog("u2", "u1", k, n)
  \/ CallCanAccessFaceMatch("u1", "u1", 1)

SpecForge == InitForge /\ [][NextForge]_vars

---------------------------------------------------------------------------
(* Creation of face matches *)

\* INSERT policy "Strict biometric data creation control": auth.uid() IS NOT
\* NULL AND user_id = auth.uid() AND can_access_face_match(user_id, id).  The
\* check runs on the proposed row before it is stored, so the predicate's
\* lookup reads the table without it.
face_match_insert_check(uid, new, profs, fms, logs, t) ==
  IF uid = NULL \/ new.user_id # uid
  THEN [raised |-> FALSE, value |-> FALSE, logs |-> logs]
  ELSE can_access_face_match(uid, new.user_id, new.id, profs, fms, logs, t)

\* supabase.from('face_matches').insert({id, user_id, photo_id}), as caller c.
\* A statement that raises or fails the check is rolled back with the audit
\* rows it wrote.
InsertFaceMatch(c, id, uid, photo) ==
  /\ ~ \E m \in face_matches : m.id = id
  /\ \E p \in photos : p.id = photo
  /\ LET new == [id |-> id, user_id |-> uid, photo_id |-> photo, face_scan_data |-> "scan"]
         r == face_match_insert_check(c, new, profiles, face_matches, activity_logs, now)
         admitted == ~r.raised /\ r.value
     IN /\ Len(r.logs) <= LogCap
        /\ face_matches' = IF admitted THEN face_matches \cup {new} ELSE face_matches
        /\ activity_logs' = IF admitted THEN r.logs ELSE activity_logs
        /\ lastOp' = Observed("insert_face_match", c, uid, id, ~admitted, admitted,
                              {}, NULL, 0, 0)
  /\ UNCHANGED <<authUsers, profiles, events, photos, now>>

---------------------------------------------------------------------------
(* The cascade specification: u1 is admin, u2 viewer; events with photos    *)
(* and the face matches written while the policy "Users can create their    *)
(* own face matches" was in force; inserts and deletes on the three tables  *)

CascadeEventIds == 1..MaxCascadeEvents

InitCascade ==
  /\ authUsers = Users
  /\ profiles = {[user_id |-> "u1", role |-> "admin", full_name |-> "n0"],
                 [user_id |-> "u2", role |-> "viewer", full_name |-> "n0"]}
  /\ activity_logs = <<LogRow("u1", "user_created", 0, NULL), LogRow("u2", "user_created", 0, NULL)>>
  /\ now = 0
  /\ lastOp = NoOp
  /\ events = {[id |-> i, visibility |-> "public", created_by |-> "u1"] : i \in CascadeEventIds}
  /\ photos = {[id |-> i, event_id |-> ((i - 1) % MaxCascadeEvents) + 1,
                uploaded_by |-> "u1", face_data |-> "faces"] : i \in PhotoIds}
  /\ face_matches = {[id |-> i, user_id |-> IF i % 2 = 1 THEN "u1" ELSE "u2",
                      photo_id |-> ((i - 1) % MaxPhotos) + 1,
                      face_scan_data |-> "scan"] : i \in MatchIds}

NextCascade ==
  \/ \E c \in Callers, id \in CascadeEventIds : InsertEvent(c, id, "public", "u1")
  \/ \E c \in Callers, id \in PhotoIds, ev \in CascadeEventIds :
       InsertPhoto(c, id, ev, "u1", "faces")
  \/ \E c \in Callers, id \in MatchIds, u \in Users, ph \in PhotoIds :
       InsertFaceMatch(c, id, u, ph)
  \/ \E c \in Callers, id \in CascadeEventIds : DeleteEvent(c, id)
  \/ \E c \in Callers, id \in PhotoIds : DeletePhoto(c, id)

SpecCascade == InitCascade /\ [][NextCascade]_vars

---------------------------------------------------------------------------
(* Properties *)

PhotoReadOps == {"select_photos", "get_safe_photos", "get_photo_with_secure_face_data"}

\* C1: on every photo read path (direct SELECT under the row-level policy,
\* get_safe_photos, get_photo_with_secure_face_data), a caller who is neither
\* an admin nor the photo's uploader is returned face_data = null.
C1_FaceDataNullOnEveryPath ==
  lastOp.op \in PhotoReadOps =>
    \A r \in lastOp.rows :
      (~lastOp.admin /\ r.uploaded_by # lastOp.caller) =>
        ("face_data" \in DOMAIN r => r.face_data = NULL)

\* C3: the role of a profile changes only by an update issued by a caller
\* whose stored role is admin at that moment.
C3_RoleChangesOnlyByAdmin ==
  [][\A u \in Users :
       (/\ get_user_role(profiles, u) # NULL
        /\ get_user_role(profiles', u) # get_user_role(profiles, u))
       => (lastOp'.op = "update_profile" /\ lastOp'.admin)]_vars

MatchReadOps == {"select_face_matches", "get_user_face_matches", "get_biometric_scan_data"}

\* C2: no read path (direct SELECT on face_matches, get_user_face_matches,
\* get_biometric_scan_data) returns a match's face_scan_data to a caller who
\* is not an admin, also when the caller owns the match.
C2_ScanDataOnlyToAdmin ==
  (lastOp.op \in MatchReadOps /\ ~lastOp.admin) =>
    /\ lastOp.data = NULL
    /\ \A r \in lastOp.rows : "face_scan_data" \notin DOMAIN r

\* a non-admin owner is returned their own match row (without the scan data),
\* and a non-admin asks for the scan data of an existing match
C2_Witness ==
  \/ /\ lastOp.op = "get_user_face_matches" /\ ~lastOp.admin
     /\ \E r \in lastOp.rows : r.user_id = lastOp.caller
  \/ /\ lastOp.op = "get_biometric_scan_data" /\ ~lastOp.admin /\ lastOp.caller # NULL
     /\ \E m \in face_matches : m.id = lastOp.id /\ m.user_id = lastOp.caller

\* C4: can_access_face_match(C, M.user_id, M.id) is true if and only if C is
\* authenticated, C is admin or M's owner, M exists with that owner, and C has
\* at most 10 access attempts in the trailing 60 seconds.
C4_AccessIff ==
  \A c \in Callers : \A m \in face_matches :
    LET r == can_access_face_match(c, m.user_id, m.id, profiles, face_matches,
                                   activity_logs, now)
    IN (~r.raised /\ r.value) <=>
         /\ c # NULL
         /\ (has_role(profiles, c, "admin") \/ c = m.user_id)
         /\ recent_attempts(activity_logs, c, now) <= RateLimit

RateLimitedLogged(c) ==
  /\ Len(activity_logs) > 0
  /\ activity_logs[Len(activity_logs)].activity_type = "biometric_access_rate_limited"
  /\ activity_logs[Len(activity_logs)].user_id = c

\* C5: the 11th call of a caller within 30 seconds is denied and logged as
\* rate-limited, also for the owner of the match; the first 10 are not.
C5_EleventhCallRateLimited ==
  (lastOp.op = "can_access_face_match" /\ lastOp.caller # NULL) =>
    /\ lastOp.nth = RateLimit + 1 =>
         (~lastOp.raised /\ ~lastOp.ok /\ lastOp.grew = 1 /\ RateLimitedLogged(lastOp.caller))
    /\ (lastOp.nth <= RateLimit /\ lastOp.grew > 0) => ~RateLimitedLogged(lastOp.caller)

\* C6: every call of can_access_face_match, whatever its outcome, appends
\* exactly one activity-log row.
C6_OneLogRowPerCall ==
  lastOp.op = "can_access_face_match" => lastOp.grew = 1

\* C7: a face-match row is returned to a caller only if the caller owns it or
\* is an admin, on direct SELECT and on get_user_face_matches with or without
\* a target.
C7_RowsOnlyToOwnerOrAdmin ==
  lastOp.op \in {"select_face_matches", "get_user_face_matches"} =>
    \A r \in lastOp.rows : r.user_id = lastOp.caller \/ lastOp.admin

\* a caller is returned a match row while another identity's row is in the table
C7_Witness ==
  /\ lastOp.op \in {"select_face_matches", "get_user_face_matches"}
  /\ lastOp.rows # {}
  /\ \E m \in face_matches : m.user_id # lastOp.caller

\* what a caller can observe of the biometric functions over a table fms
BiometricView(c, fms) ==
  [access |-> [o \in Users, id \in MatchIds |->
                 LET r == can_access_face_match(c, o, id, profiles, fms, activity_logs, now)
                 IN <<r.raised, r.value>>],
   matches |-> [t \in Callers |->
                 LET r == get_user_face_matches(c, t, profiles, fms, activity_logs, now)
                 IN <<r.raised, r.rows>>],
   scan |-> [id \in MatchIds |-> get_biometric_scan_data(c, id, profiles, fms)]]

\* C9: for a non-admin caller and a match the caller does not own, what the
\* caller observes of can_access_face_match, get_user_face_matches and
\* get_biometric_scan_data is the same whether the match row exists or not.
C9_NotFoundLikeForbidden ==
  \A c \in Callers : \A m \in face_matches :
    (~has_role(profiles, c, "admin") /\ m.user_id # c) =>
      BiometricView(c, face_matches) = BiometricView(c, face_matches \ {m})

BiometricCalls == {"can_access_face_match", "get_user_face_matches", "get_biometric_scan_data"}

\* C10: no call of can_access_face_match, get_user_face_matches or
\* get_biometric_scan_data fails: each completes with a value, and every audit
\* row the predicate writes is accepted by activity_logs.
C10_NoCallRaises ==
  lastOp.op \in BiometricCalls => ~lastOp.raised

\* C13: every signed-up identity has exactly one profile in every reachable
\* state: signup creates it with role viewer and appends one user_created
\* row, no insert creates a second one, and no admitted operation leaves a
\* signed-up identity without a profile.
C13_OneProfilePerIdentity ==
  /\ \A u \in authUsers : Cardinality({p \in profiles : p.user_id = u}) = 1
  /\ lastOp.op = "signup" =>
       /\ get_user_role(profiles, lastOp.caller) = "viewer"
       /\ lastOp.grew = 1
       /\ activity_logs[Len(activity_logs)].activity_type = "user_created"

C17_LogReadByCategory ==
  lastOp.op = "select_activity_logs" =>
    /\ lastOp.role = "admin" => lastOp.rows = DOMAIN activity_logs
    /\ lastOp.role = "editor" =>
         /\ lastOp.rows \subseteq DOMAIN activity_logs
         /\ lastOp.rows # DOMAIN activity_logs
    /\ lastOp.role \notin {"admin", "editor"} => lastOp.rows = {}

\* C18: the activity log is append-only: no operation of any caller, admins
\* included, changes or removes a row once written.
C18_LogAppendOnly ==
  [][/\ Len(activity_logs') >= Len(activity_logs)
     /\ \A i \in DOMAIN activity_logs : activity_logs'[i] = activity_logs[i]]_vars

\* an admin has issued a DELETE on the log after a client appended a row
C18_Witness ==
  /\ lastOp.op = "delete_activity_log" /\ lastOp.admin
  /\ \E i \in DOMAIN activity_logs : activity_logs[i].activity_type = "face_scanned"

EventOf(evs, id) == CHOOSE e \in evs : e.id = id

\* who may insert, update and delete events, by the caller's stored role when
\* the request runs
EventMutationsAdmitted ==
  \A id \in EventIds :
    LET was == \E e \in events : e.id = id
        is == \E e \in events' : e.id = id
    IN /\ (~was /\ is) =>
            (lastOp'.op = "insert_event" /\ lastOp'.role \in {"admin", "editor"})
       /\ (was /\ is /\ EventOf(events', id) # EventOf(events, id)) =>
            /\ lastOp'.op = "update_event"
            /\ lastOp'.admin \/ EventOf(events, id).created_by = lastOp'.caller
            /\ lastOp'.admin
                 \/ EventOf(events', id).created_by = EventOf(events, id).created_by
       /\ (was /\ ~is) => (lastOp'.op = "delete_event" /\ lastOp'.admin)

face_data_of(r) == IF "face_data" \in DOMAIN r THEN r.face_data ELSE NULL

\* C12: for the same caller and photo, the direct table read, get_safe_photos
\* and get_photo_with_secure_face_data return the same face_data, and to an
\* admin or the photo's uploader that value is the stored face_data.
C12_SameRedactionOnEveryPath ==
  \A c \in Callers : \A p \in select_photos(c, events, photos) :
    LET direct == face_data_of(p)
        safe == face_data_of(CHOOSE r \in get_safe_photos(c, NULLID, events, photos) :
                               r.id = p.id)
        secure == face_data_of(get_photo_with_secure_face_data(c, p, profiles))
    IN /\ direct = safe
       /\ safe = secure
       /\ (has_role(profiles, c, "admin") \/ p.uploaded_by = c) =>
            (safe = p.face_data /\ secure = p.face_data)

PhotoOf(phs, id) == CHOOSE p \in phs : p.id = id

C19_CascadeDelete ==
  /\ []((\A p \in photos : \E e \in events : e.id = p.event_id)
         /\ (\A m \in face_matches : \E q \in photos : q.id = m.photo_id))
  /\ [][(lastOp'.op = "delete_event" /\ lastOp'.ok) =>
          /\ events' = {e \in events : e.id # lastOp'.id}
          /\ photos' = {p \in photos : p.event_id # lastOp'.id}
          /\ face_matches' =
               {m \in face_matches :
                  \E p \in photos : p.id = m.photo_id /\ p.event_id # lastOp'.id}]_vars

\* an event has been deleted with a photo and a face match of its own, while
\* the photos and face matches of another event are still there
C19_Witness ==
  /\ lastOp.op = "delete_event" /\ lastOp.ok
  /\ photos # {} /\ face_matches # {}
  /\ \E i \in MatchIds : ~ \E m \in face_matches : m.id = i
  /\ \E i \in PhotoIds : ~ \E p \in photos : p.id = i

\* C20: an insert into face_matches is admitted exactly when the caller is
\* authenticated and the new row's user_id is the caller: an authenticated
\* caller under the rate limit who inserts a match for themselves on an
\* existing photo has it admitted.
C20_FaceMatchInsertAdmitted ==
  lastOp.op = "insert_face_match" =>
    (lastOp.ok <=> (lastOp.caller # NULL /\ lastOp.target = lastOp.caller))

\* C21: the role resolver returns the stored role of the caller's profile,
\* and "no role" without an error when the caller has no identity or no
\* profile; then has_role is false for every role and is_admin_or_editor is
\* false.  The resolver changes no stored state.
C21_RoleResolver ==
  /\ [](lastOp.op = "get_user_role" =>
          /\ ~lastOp.raised
          /\ \A p \in profiles : p.user_id = lastOp.caller => lastOp.data = p.role
          /\ (~ \E p \in profiles : p.user_id = lastOp.caller) =>
               /\ lastOp.data = NULL
               /\ \A r \in user_role : ~has_role(profiles, lastOp.caller, r)
               /\ ~is_admin_or_editor(profiles, lastOp.caller))
  /\ [][lastOp'.op = "get_user_role" =>
          UNCHANGED <<authUsers, profiles, events, photos, face_matches, activity_logs>>]_vars

\* the role of a signed-up identity whose profile an admin deleted is resolved
C21_Witness ==
  /\ lastOp.op = "get_user_role"
  /\ lastOp.caller \in authUsers
  /\ ~ \E p \in profiles : p.user_id = lastOp.caller

C23_EveryEvaluationCounts ==
  (/\ lastOp.op = "can_access_face_match"
   /\ lastOp.caller # NULL
   /\ lastOp.nth > RateLimit + 1)
  => (~lastOp.raised /\ ~lastOp.ok /\ RateLimitedLogged(lastOp.caller))

\* C24: each evaluation is logged with the kind of its reason, the reasons
\* tested in a fixed order: no identity, rate limit exceeded, invalid
\* reference, then the decision with access_granted equal to the result.
C24_DenialKindsInOrder ==
  lastOp.op = "can_access_face_match" =>
    LET n == Len(activity_logs)
        before == SubSeq(activity_logs, 1, n - 1)
        row == activity_logs[n]
        valid == \E m \in face_matches : m.id = lastOp.id /\ m.user_id = lastOp.target
        expected ==
          IF lastOp.caller = NULL THEN "unauthorized_biometric_access"
          ELSE IF recent_attempts(before, lastOp.caller, now) > RateLimit
               THEN "biometric_access_rate_limited"
          ELSE IF ~valid THEN "invalid_biometric_access"
          ELSE "biometric_access_attempt"
    IN /\ ~lastOp.raised
       /\ lastOp.grew = 1
       /\ row.activity_type = expected
       /\ row.user_id = lastOp.caller
       /\ expected = "biometric_access_attempt" => row.metadata.access_granted = lastOp.ok
       /\ expected # "biometric_access_attempt" => ~lastOp.ok

BiometricKinds == {"unauthorized_biometric_access", "biometric_access_rate_limited",
                   "invalid_biometric_access", "biometric_access_attempt"}

\* C25: a caller regains access: when the owner of a match calls
\* can_access_face_match on it and the log holds no biometric row of the
\* caller from the 60 seconds before the call, the call is granted.
C25_AccessRegainedAfterWindow ==
  (/\ lastOp.op = "can_access_face_match"
   /\ lastOp.caller # NULL
   /\ lastOp.target = lastOp.caller
   /\ \E m \in face_matches : m.id = lastOp.id /\ m.user_id = lastOp.caller
   /\ \A i \in 1..(Len(activity_logs) - lastOp.grew) :
        (/\ activity_logs[i].user_id = lastOp.caller
         /\ activity_logs[i].activity_type \in BiometricKinds)
        => activity_logs[i].created_at <= now - RateWindow)
  => (~lastOp.raised /\ lastOp.ok)

\* C27: for an authenticated caller, get_user_face_matches with the caller as
\* target returns the same rows as with no target: every match the caller
\* owns.
C27_TargetSelfSameAsNoTarget ==
  (/\ lastOp.op = "get_user_face_matches"
   /\ lastOp.caller # NULL
   /\ lastOp.target = lastOp.caller)
  => /\ ~lastOp.raised
     /\ lastOp.rows = {match_columns(m) : m \in {x \in face_matches : x.user_id = lastOp.caller}}
     /\ lastOp.rows = get_user_face_matches(lastOp.caller, NULL, profiles, face_matches,
                                            activity_logs, now).rows

\* the outcome "denied as rate-limited" of an evaluation result
DeniedAsRateLimited(r) ==
  /\ ~r.raised
  /\ ~r.value
  /\ Len(r.logs) > 0
  /\ r.logs[Len(r.logs)].activity_type = "biometric_access_rate_limited"

C28_UploaderIsInserter ==
  [][\A id \in PhotoIds :
       ((~ \E p \in photos : p.id = id) /\ (\E p \in photos' : p.id = id))
       => PhotoOf(photos', id).uploaded_by = lastOp'.caller]_vars

\* C29: once a user of any role has a face_scanned row of their own in the
\* log, the next checkForPreviousScans of that user finds it, sets hasScanned
\* and loads the user's matches.
C29_ScanFoundAfterFaceScan ==
  (/\ lastOp.op = "checkForPreviousScans"
   /\ \E i \in DOMAIN activity_logs :
        /\ activity_logs[i].user_id = lastOp.caller
        /\ activity_logs[i].activity_type = "face_scanned")
  => (lastOp.ok /\ ~lastOp.raised)

\* C30: updateUserRole writes a user_role_changed row and reports success
\* only if the call set the target's stored role to the new role.
C30_RoleChangeLoggedOnlyIfDone ==
  (lastOp.op = "updateUserRole" /\ (lastOp.ok \/ lastOp.grew > 0)) =>
    /\ lastOp.id = 1
    /\ get_user_role(profiles, lastOp.target) = lastOp.data

====
